---- MODULE Spec2Model ----
(***************************************************************************)
(* Model of the vrbo-server HTTP handlers (src/index.js and the second     *)
(* revision of the same server, src/unnamed/part_000) over the MongoDB     *)
(* collections users, yearlyEarnings and propertyData.                     *)
(*                                                                         *)
(* One deployment runs one of the two revisions (variable variant).  A     *)
(* handler is one action per store call it awaits: the code between two    *)
(* awaits runs on the single-threaded event loop and is atomic, the store  *)
(* call itself is atomic per document.  pc[c] is the continuation of the   *)
(* request of client c that is suspended at an await, res[c] the last      *)
(* response sent to client c.                                              *)
(***************************************************************************)
EXTENDS Integers, Sequences, FiniteSets, TLC

VARIABLES variant, users, yearlyEarnings, propertyData, nextId, storeUp, pc, res

vars == <<variant, users, yearlyEarnings, propertyData, nextId, storeUp, pc, res>>

(***************************************************************************)
(* Bounds of the model.                                                    *)
(***************************************************************************)
\* documents the driver may create in one behaviour (ObjectIds generated)
MaxInserts == 2
\* digits of an ObjectId string (24 hex digits in the driver)
IdLen == 2
\* entries of a bulk PUT /yearly-earnings body
MaxBulk == 2
\* required fields of a property body that one request may leave out or empty
MaxDefects == 2

\* the clients that may have a request in flight at the same time
Clients == {1, 2}
FirstClient == CHOOSE c \in Clients : \A d \in Clients : c <= d

(***************************************************************************)
(* JSON values, as express.json() hands them to a handler: a type tag and  *)
(* the literal text.  Undefined is a key that is absent.                   *)
(***************************************************************************)
Undefined == [t |-> "undefined", v |-> ""]
Null == [t |-> "null", v |-> ""]
Str(s) == [t |-> "string", v |-> s]
Num(s) == [t |-> "number", v |-> s]
Bool(b) == [t |-> "boolean", v |-> IF b THEN "true" ELSE "false"]
Date(s) == [t |-> "date", v |-> s]

\* mutant: only a missing key is rejected, an empty string passes
Truthy_DefinedOnly(x) == x.t # "undefined"

\* JavaScript truthiness, as used by `!x` and `x || y`
Truthy(x) ==
    CASE x.t = "undefined" -> FALSE
      [] x.t = "null" -> FALSE
      [] x.t = "string" -> x.v # ""
      [] x.t = "number" -> x.v # "0"
      [] x.t = "boolean" -> x.v = "true"
      [] OTHER -> TRUE

\* mutant: the role check is `!isAdmin` instead of a type check
TypeofBoolean_Truthy(x) ==
    x.t \notin {"undefined", "null"} /\ x.v \notin {"", "0", "false"}

\* typeof x === 'boolean'
TypeofBoolean(x) == x.t = "boolean"

\* The driver serialises an undefined value as null (ignoreUndefined is off).
ToBson(x) == IF x.t = "undefined" THEN Null ELSE x

\* equality match of a query field: null also matches a missing field
FieldMatches(stored, wanted) ==
    IF wanted = Null THEN stored \in {Null, Undefined} ELSE stored = wanted

\* new Date(): the clock is read, its value plays no part in any handler
Now == Date("now")

(***************************************************************************)
(* ObjectId strings.  A path parameter is a string; ObjectId.isValid       *)
(* accepts exactly the strings of IdLen hex digits, new ObjectId(s) throws *)
(* on every other string and otherwise yields the id the digits denote.    *)
(***************************************************************************)
HexDigits == {"0", "1"}
DigitVal(ch) == IF ch = "0" THEN 0 ELSE 1

RECURSIVE HexVal(_)
HexVal(s) ==
    IF s = <<>> THEN 0
    ELSE Cardinality(HexDigits) * HexVal(SubSeq(s, 1, Len(s) - 1)) + DigitVal(s[Len(s)])

ObjectIdIsValid(s) == Len(s) = IdLen /\ \A i \in 1..Len(s) : s[i] \in HexDigits

\* new ObjectId(s) for a string isValid accepts
ObjectId(s) == HexVal(s)

\* whether new ObjectId(s) throws
ObjectIdThrows(s) == ~ObjectIdIsValid(s)

RECURSIVE StringsOfLen(_, _)
StringsOfLen(chars, n) ==
    IF n = 0 THEN {<<>>}
    ELSE {Append(s, ch) : s \in StringsOfLen(chars, n - 1), ch \in chars}

\* the path parameters requests carry: every well-formed id, and strings
\* that are too short, too long, or hold a character that is no hex digit
IdParams ==
    StringsOfLen(HexDigits, IdLen)
        \cup {SubSeq(s, 1, IdLen - 1) : s \in {[i \in 1..IdLen |-> "0"]}}
        \cup {[i \in 1..(IdLen + 1) |-> "1"]}
        \cup {[i \in 1..IdLen |-> IF i = IdLen THEN "z" ELSE "0"]}

NoParam == <<>>

(***************************************************************************)
(* User documents and request bodies of the user routes.                   *)
(***************************************************************************)
NoId == 0 - 1

NoUser ==
    [_id |-> NoId, uid |-> Undefined, name |-> Undefined, email |-> Undefined,
     imageURL |-> Undefined, createdAt |-> Undefined, isAdmin |-> Undefined,
     lastLogin |-> Undefined]

EmailValues == {Str("a@x.io"), Str("b@x.io"), Str("nodomain")}

\* a request body: the keys the user routes read; a key that is absent is
\* Undefined
NoBody ==
    [uid |-> Undefined, name |-> Undefined, email |-> Undefined,
     imageURL |-> Undefined, isAdmin |-> Undefined]

\* bodies of POST /users: complete ones, and ones with uid, name or email
\* missing or empty
UserBodies ==
    {[NoBody EXCEPT !.uid = Str("u1"), !.name = Str("n1"), !.email = e] :
        e \in EmailValues \ {Str("b@x.io")}}
    \cup {[NoBody EXCEPT !.uid = Str("u1"), !.name = Str("n1"), !.email = Str("b@x.io"),
                         !.imageURL = Str("img")]}
    \cup {[NoBody EXCEPT !.uid = u, !.name = Str("n1"), !.email = Str("a@x.io")] :
            u \in {Undefined, Str("")}}
    \cup {[NoBody EXCEPT !.uid = Str("u1"), !.name = n, !.email = Str("a@x.io")] :
            n \in {Undefined, Str("")}}
    \cup {[NoBody EXCEPT !.uid = Str("u1"), !.name = Str("n1"), !.email = e] :
            e \in {Undefined, Str("")}}

\* bodies of PUT /users/:id: any object; the keys it holds are $set
UpdateBodies ==
    {NoBody, [NoBody EXCEPT !.email = Str("a@x.io")], [NoBody EXCEPT !.isAdmin = Bool(TRUE)]}

\* bodies of PATCH /users/:id
RoleBodies ==
    {[NoBody EXCEPT !.isAdmin = a] :
        a \in {Undefined, Null, Bool(TRUE), Bool(FALSE), Str("true"), Num("1")}}

Ids(coll) == {coll[i]._id : i \in 1..Len(coll)}

\* collection.findOne({email}): the first document, in natural order
Matching(coll, email) == {i \in 1..Len(coll) : FieldMatches(coll[i].email, ToBson(email))}

\* mutant: the existence check never finds the record
FindOneByEmail_Never(coll, email) == [_id |-> NoId, uid |-> Undefined, name |-> Undefined,
     email |-> Undefined, imageURL |-> Undefined, createdAt |-> Undefined,
     isAdmin |-> Undefined, lastLogin |-> Undefined]

FindOneByEmail(coll, email) ==
    IF Matching(coll, email) = {} THEN NoUser
    ELSE coll[CHOOSE i \in Matching(coll, email) : \A j \in Matching(coll, email) : i <= j]

IndexOfId(coll, id) == {i \in 1..Len(coll) : coll[i]._id = id}

\* $set of the keys an update object holds
SetFields(doc, upd) ==
    [doc EXCEPT !.email = IF upd.email = Undefined THEN @ ELSE upd.email,
                !.isAdmin = IF upd.isAdmin = Undefined THEN @ ELSE upd.isAdmin]

\* collection.updateOne({_id}, {$set: upd})
UpdateOneById(coll, id, upd) ==
    [i \in 1..Len(coll) |-> IF coll[i]._id = id THEN SetFields(coll[i], upd) ELSE coll[i]]

\* collection.deleteOne({_id})
DeleteOneById(coll, id) == SelectSeq(coll, LAMBDA d : d._id # id)

(***************************************************************************)
(* Yearly-earnings documents and the bodies of the earnings routes.        *)
(* index.js keeps one document per year (year, amount); part_000 keeps one *)
(* document whose keys are whatever the body held (here "2023", "2024").   *)
(***************************************************************************)
NoEarning ==
    [_id |-> NoId, year |-> Undefined, amount |-> Undefined,
     y2023 |-> Undefined, y2024 |-> Undefined]

\* the :year path parameter is always a non-empty string
YearParams == {Str("2024"), Str("2025")}

\* body.amount of PUT /yearly-earnings/:year
AmountValues == {Undefined, Null, Num("100"), Num("200"), Str("abc")}

\* the strings Number() converts to a number
NumericStrings == {"", "100", "200"}

\* isNaN(x), that is Number.isNaN(Number(x))
IsNaN(x) ==
    CASE x.t = "undefined" -> TRUE
      [] x.t = "string" -> x.v \notin NumericStrings
      [] OTHER -> FALSE

\* an element of a bulk body: an object with year and amount keys, or null
NullEntry == [t |-> "null", year |-> Undefined, amount |-> Undefined]
Entry(year, amount) == [t |-> "object", year |-> year, amount |-> amount]

BulkEntries ==
    {Entry(Str("2024"), Num("100")), Entry(Str("2024"), Num("200")),
     Entry(Str("2025"), Num("100")), Entry(Num("2024"), Num("100")), NullEntry}

RECURSIVE SeqsUpTo(_, _)
SeqsUpTo(S, n) ==
    IF n = 0 THEN {<<>>}
    ELSE SeqsUpTo(S, n - 1)
             \cup {Append(q, x) : q \in {r \in SeqsUpTo(S, n - 1) : Len(r) = n - 1}, x \in S}

\* a body of an earnings route as express.json() yields it: an object or an
\* array (never a primitive); with the year and amount the per-year route reads
NoEarnReq ==
    [kind |-> "none", year |-> Undefined, amount |-> Undefined,
     y2023 |-> Undefined, y2024 |-> Undefined, arr |-> <<>>]

ObjectBody(a, b) == [NoEarnReq EXCEPT !.kind = "object", !.y2023 = a, !.y2024 = b]
ArrayBody(q) == [NoEarnReq EXCEPT !.kind = "array", !.arr = q]

\* bodies of PUT /yearly-earnings
EarningsBodies ==
    {ObjectBody(a, b) : a \in {Undefined, Num("100")}, b \in {Undefined, Num("100"), Num("200")}}
        \cup {ArrayBody(q) : q \in SeqsUpTo(BulkEntries, MaxBulk)}

\* typeof x === 'object' and x is not null
IsObjectLike(body) == body.kind \in {"object", "array"}

MatchingYear(coll, year) == {i \in 1..Len(coll) : FieldMatches(coll[i].year, ToBson(year))}

First(S) == CHOOSE i \in S : \A j \in S : i <= j

\* mutant: the write is an insert, not an upsert
UpsertByYear_AlwaysInserts(coll, year, amount, id) ==
    [coll |-> Append(coll, [NoEarning EXCEPT !._id = id, !.year = ToBson(year),
                                             !.amount = ToBson(amount)]),
     n |-> [matched |-> 0, modified |-> 0, upserted |-> 1]]

\* collection.updateOne({year}, {$set: {amount}}, {upsert: true}) and its result
UpsertByYear(coll, year, amount, id) ==
    IF MatchingYear(coll, year) = {}
    THEN [coll |-> Append(coll, [NoEarning EXCEPT !._id = id, !.year = ToBson(year),
                                                  !.amount = ToBson(amount)]),
          n |-> [matched |-> 0, modified |-> 0, upserted |-> 1]]
    ELSE [coll |-> [coll EXCEPT ![First(MatchingYear(coll, year))].amount = ToBson(amount)],
          n |-> [matched |-> 1,
                 modified |-> IF coll[First(MatchingYear(coll, year))].amount = ToBson(amount)
                              THEN 0 ELSE 1,
                 upserted |-> 0]]

\* $set of the keys the body object holds
SetEarnings(doc, body) ==
    [doc EXCEPT !.y2023 = IF body.y2023 = Undefined THEN @ ELSE body.y2023,
                !.y2024 = IF body.y2024 = Undefined THEN @ ELSE body.y2024]

\* collection.updateOne({}, {$set: body}, {upsert: true}) and its result
UpsertFirst(coll, body, id) ==
    IF coll = <<>>
    THEN [coll |-> <<SetEarnings([NoEarning EXCEPT !._id = id], body)>>,
          n |-> [matched |-> 0, modified |-> 0, upserted |-> 1]]
    ELSE [coll |-> [coll EXCEPT ![1] = SetEarnings(coll[1], body)],
          n |-> [matched |-> 1,
                 modified |-> IF SetEarnings(coll[1], body) = coll[1] THEN 0 ELSE 1,
                 upserted |-> 0]]

AddCounts(a, b) ==
    [matched |-> a.matched + b.matched, modified |-> a.modified + b.modified,
     upserted |-> a.upserted + b.upserted]

(***************************************************************************)
(* Property records and the bodies of POST /add-property.                  *)
(***************************************************************************)
PropertyKeys ==
    {"propertyType", "location", "name", "country", "address", "city", "state", "zipCode"}

\* details is an object (its keys are name .. zipCode), or absent, null or a
\* string; a key of a string reads as undefined
NoProperty ==
    [propertyType |-> Undefined, location |-> Undefined, details |-> Undefined,
     name |-> Undefined, country |-> Undefined, address |-> Undefined,
     city |-> Undefined, state |-> Undefined, zipCode |-> Undefined]

Object == [t |-> "object", v |-> ""]

FieldValues == {Undefined, Str(""), Str("x")}

Defects(b) ==
    Cardinality({k \in PropertyKeys : b[k] # Str("x")})

PropertyBodies ==
    {b \in [propertyType : FieldValues, location : FieldValues, details : {Object},
            name : FieldValues, country : FieldValues, address : FieldValues,
            city : FieldValues, state : FieldValues, zipCode : FieldValues] :
        Defects(b) <= MaxDefects}
    \cup {[NoProperty EXCEPT !.propertyType = Str("x"), !.location = Str("x"), !.details = d] :
            d \in {Undefined, Null, Str("x")}}

(***************************************************************************)
(* Responses and continuations.                                            *)
(***************************************************************************)
NoCounts == [matched |-> 0, modified |-> 0, upserted |-> 0]

\* a response, with the request it answers: route, path parameter and body
NoRes ==
    [route |-> "", id |-> NoParam, body |-> NoBody, earn |-> NoEarnReq, prop |-> NoProperty,
     again |-> FALSE, status |-> 0, user |-> NoUser, n |-> NoCounts]

Response(route, id, body, status) ==
    [NoRes EXCEPT !.route = route, !.id = id, !.body = body, !.status = status]

\* the continuation of a request: the store call it awaits and the locals it
\* holds (before: the yearlyEarnings collection when bulkWrite was called)
Idle ==
    [op |-> "idle", body |-> NoBody, doc |-> NoUser,
     ops |-> <<>>, applied |-> 0, n |-> NoCounts, before |-> <<>>]

AllIdle == \A c \in Clients : pc[c] = Idle

Pending == Cardinality({c \in Clients : pc[c] # Idle})

Reply(c, r) == res' = [res EXCEPT ![c] = r] /\ pc' = [pc EXCEPT ![c] = Idle]

Init ==
    /\ variant \in {"index.js", "part_000"}
    /\ users = <<>>
    /\ yearlyEarnings = <<>>
    /\ propertyData = <<>>
    /\ nextId = 0
    /\ storeUp = TRUE
    /\ pc = [c \in Clients |-> Idle]
    /\ res = [c \in Clients |-> NoRes]

(***************************************************************************)
(* POST /users: validation, then findOne({email}), then insertOne.         *)
(***************************************************************************)
NewUser(body) ==
    [_id |-> NoId, uid |-> body.uid, name |-> body.name, email |-> body.email,
     imageURL |-> IF Truthy(body.imageURL) THEN body.imageURL ELSE Null,
     createdAt |-> Now, isAdmin |-> Bool(FALSE),
     lastLogin |-> IF variant = "part_000" THEN Now ELSE Undefined]

\* the handler up to the answer of findOne
PostUsersFind(c, body) ==
    /\ pc[c] = Idle
    /\ UNCHANGED <<variant, users, yearlyEarnings, propertyData, nextId, storeUp>>
    /\ IF ~Truthy(body.uid) \/ ~Truthy(body.name) \/ ~Truthy(body.email)
       THEN Reply(c, Response("POST /users", NoParam, body, 400))
       ELSE IF ~storeUp
       THEN Reply(c, Response("POST /users", NoParam, body, 500))
       ELSE IF FindOneByEmail(users, body.email) # NoUser
       THEN Reply(c, [Response("POST /users", NoParam, body, 200)
                         EXCEPT !.user = FindOneByEmail(users, body.email)])
       ELSE /\ nextId + Pending < MaxInserts
            /\ pc' = [pc EXCEPT ![c] = [Idle EXCEPT !.op = "insertOne", !.body = body,
                                                     !.doc = NewUser(body)]]
            /\ UNCHANGED res

\* mutant: the insert is guarded by the store (a unique index on email)
PostUsersInsert_Unique(c) ==
    /\ pc[c].op = "insertOne"
    /\ UNCHANGED <<variant, yearlyEarnings, propertyData, storeUp>>
    /\ IF ~storeUp \/ FindOneByEmail(users, pc[c].body.email) # NoUser
       THEN /\ Reply(c, Response("POST /users", NoParam, pc[c].body, 500))
            /\ UNCHANGED <<users, nextId>>
       ELSE /\ users' = Append(users, [pc[c].doc EXCEPT !._id = nextId])
            /\ nextId' = nextId + 1
            /\ Reply(c, [Response("POST /users", NoParam, pc[c].body, 201)
                            EXCEPT !.user = [pc[c].doc EXCEPT !._id = nextId]])

\* the answer of insertOne and the response
PostUsersInsert(c) ==
    /\ pc[c].op = "insertOne"
    /\ UNCHANGED <<variant, yearlyEarnings, propertyData, storeUp>>
    /\ IF ~storeUp
       THEN /\ Reply(c, Response("POST /users", NoParam, pc[c].body, 500))
            /\ UNCHANGED <<users, nextId>>
       ELSE /\ users' = Append(users, [pc[c].doc EXCEPT !._id = nextId])
            /\ nextId' = nextId + 1
            /\ Reply(c, [Response("POST /users", NoParam, pc[c].body, 201)
                            EXCEPT !.user = [pc[c].doc EXCEPT !._id = nextId]])

(***************************************************************************)
(* GET /users/:email                                                       *)
(***************************************************************************)
GetUserByEmail(c, email) ==
    /\ pc[c] = Idle
    /\ UNCHANGED <<variant, users, yearlyEarnings, propertyData, nextId, storeUp>>
    /\ IF ~storeUp
       THEN Reply(c, Response("GET /users/:email", NoParam, [NoBody EXCEPT !.email = email], 500))
       ELSE IF FindOneByEmail(users, email) = NoUser
       THEN Reply(c, Response("GET /users/:email", NoParam, [NoBody EXCEPT !.email = email], 404))
       ELSE Reply(c, [Response("GET /users/:email", NoParam, [NoBody EXCEPT !.email = email], 200)
                         EXCEPT !.user = FindOneByEmail(users, email)])

(***************************************************************************)
(* PUT /users/:id (part_000)                                               *)
(***************************************************************************)
PutUser(c, id, body) ==
    /\ variant = "part_000"
    /\ pc[c] = Idle
    /\ UNCHANGED <<variant, yearlyEarnings, propertyData, nextId, storeUp>>
    /\ IF ~ObjectIdIsValid(id)
       THEN /\ Reply(c, Response("PUT /users/:id", id, body, 400))
            /\ UNCHANGED users
       ELSE IF ~storeUp
       THEN /\ Reply(c, Response("PUT /users/:id", id, body, 500))
            /\ UNCHANGED users
       ELSE IF IndexOfId(users, ObjectId(id)) = {}
       THEN /\ Reply(c, Response("PUT /users/:id", id, body, 404))
            /\ UNCHANGED users
       ELSE /\ users' = UpdateOneById(users, ObjectId(id), body)
            /\ Reply(c, Response("PUT /users/:id", id, body, 200))

(***************************************************************************)
(* DELETE /users/:id (part_000)                                            *)
(***************************************************************************)
\* mutant: DELETE answers 200 whether or not a record was deleted
DeleteUser_Idempotent(c, id) ==
    /\ variant = "part_000"
    /\ pc[c] = Idle
    /\ UNCHANGED <<variant, yearlyEarnings, propertyData, nextId, storeUp>>
    /\ IF ~ObjectIdIsValid(id)
       THEN /\ Reply(c, Response("DELETE /users/:id", id, NoBody, 400))
            /\ UNCHANGED users
       ELSE IF ~storeUp
       THEN /\ Reply(c, Response("DELETE /users/:id", id, NoBody, 500))
            /\ UNCHANGED users
       ELSE /\ users' = DeleteOneById(users, ObjectId(id))
            /\ Reply(c, Response("DELETE /users/:id", id, NoBody, 200))

DeleteUser(c, id) ==
    /\ variant = "part_000"
    /\ pc[c] = Idle
    /\ UNCHANGED <<variant, yearlyEarnings, propertyData, nextId, storeUp>>
    /\ IF ~ObjectIdIsValid(id)
       THEN /\ Reply(c, Response("DELETE /users/:id", id, NoBody, 400))
            /\ UNCHANGED users
       ELSE IF ~storeUp
       THEN /\ Reply(c, Response("DELETE /users/:id", id, NoBody, 500))
            /\ UNCHANGED users
       ELSE IF IndexOfId(users, ObjectId(id)) = {}
       THEN /\ Reply(c, Response("DELETE /users/:id", id, NoBody, 404))
            /\ UNCHANGED users
       ELSE /\ users' = DeleteOneById(users, ObjectId(id))
            /\ Reply(c, Response("DELETE /users/:id", id, NoBody, 200))

(***************************************************************************)
(* PATCH /users/:id (both revisions): no isValid check; new ObjectId(id)   *)
(* throws inside the try block on a malformed id and the catch answers 500.*)
(***************************************************************************)
PatchUser(c, id, body) ==
    /\ pc[c] = Idle
    /\ UNCHANGED <<variant, yearlyEarnings, propertyData, nextId, storeUp>>
    /\ IF ~TypeofBoolean(body.isAdmin)
       THEN /\ Reply(c, Response("PATCH /users/:id", id, body, 400))
            /\ UNCHANGED users
       ELSE IF ObjectIdThrows(id) \/ ~storeUp
       THEN /\ Reply(c, Response("PATCH /users/:id", id, body, 500))
            /\ UNCHANGED users
       ELSE IF IndexOfId(users, ObjectId(id)) = {}
       THEN /\ Reply(c, Response("PATCH /users/:id", id, body, 404))
            /\ UNCHANGED users
       ELSE /\ users' = UpdateOneById(users, ObjectId(id),
                                      [NoBody EXCEPT !.isAdmin = body.isAdmin])
            /\ Reply(c, Response("PATCH /users/:id", id, body, 200))

(***************************************************************************)
(* PUT /yearly-earnings/:year (index.js)                                   *)
(***************************************************************************)
\* the request repeats the one last answered to c with 200
Again(c, r) ==
    /\ res[c].status = 200
    /\ res[c].route = r.route
    /\ res[c].earn = r.earn

EarnResponse(c, route, earn, status, n) ==
    [NoRes EXCEPT !.route = route, !.earn = earn, !.status = status, !.n = n,
                  !.again = Again(c, [route |-> route, earn |-> earn])]

PutYearlyEarningsYear(c, year, amount) ==
    LET earn == [NoEarnReq EXCEPT !.kind = "object", !.year = year, !.amount = amount]
        up == UpsertByYear(yearlyEarnings, year, amount, nextId)
    IN  /\ variant = "index.js"
        /\ pc[c] = Idle
        /\ UNCHANGED <<variant, users, propertyData, storeUp>>
        /\ IF ~Truthy(year) \/ IsNaN(amount)
           THEN /\ Reply(c, EarnResponse(c, "PUT /yearly-earnings/:year", earn, 400, NoCounts))
                /\ UNCHANGED <<yearlyEarnings, nextId>>
           ELSE IF ~storeUp
           THEN /\ Reply(c, EarnResponse(c, "PUT /yearly-earnings/:year", earn, 500, NoCounts))
                /\ UNCHANGED <<yearlyEarnings, nextId>>
           ELSE /\ up.n.upserted = 1 => nextId < MaxInserts
                /\ yearlyEarnings' = up.coll
                /\ nextId' = nextId + up.n.upserted
                /\ Reply(c, EarnResponse(c, "PUT /yearly-earnings/:year", earn, 200, up.n))

(***************************************************************************)
(* PUT /yearly-earnings, bulk (index.js): the body is mapped to one        *)
(* updateOne per entry and handed to bulkWrite, which applies them in      *)
(* order, one document at a time, and stops at the first failure.          *)
(***************************************************************************)
PutYearlyEarningsBulk(c, body) ==
    /\ variant = "index.js"
    /\ pc[c] = Idle
    /\ UNCHANGED <<variant, users, yearlyEarnings, propertyData, nextId, storeUp>>
    /\ IF body.kind # "array"
       THEN Reply(c, EarnResponse(c, "PUT /yearly-earnings", body, 400, NoCounts))
       ELSE IF \/ \E i \in 1..Len(body.arr) : body.arr[i].t = "null"
               \/ body.arr = <<>>
       THEN Reply(c, EarnResponse(c, "PUT /yearly-earnings", body, 500, NoCounts))
       ELSE /\ nextId + Len(body.arr) <= MaxInserts
            /\ pc' = [pc EXCEPT ![c] = [Idle EXCEPT !.op = "bulkWrite", !.ops = body.arr,
                                                    !.before = yearlyEarnings]]
            /\ UNCHANGED res

\* mutant: the batch runs in a transaction that a failure rolls back
BulkWriteStep_RollsBack(c) ==
    LET op == pc[c].ops[pc[c].applied + 1]
        up == UpsertByYear(yearlyEarnings, op.year, op.amount, nextId)
        body == ArrayBody(pc[c].ops)
    IN  /\ pc[c].op = "bulkWrite"
        /\ UNCHANGED <<variant, users, propertyData, storeUp>>
        /\ IF ~storeUp
           THEN /\ Reply(c, EarnResponse(c, "PUT /yearly-earnings", body, 500, NoCounts))
                /\ yearlyEarnings' = pc[c].before
                /\ UNCHANGED nextId
           ELSE /\ yearlyEarnings' = up.coll
                /\ nextId' = nextId + up.n.upserted
                /\ IF pc[c].applied + 1 = Len(pc[c].ops)
                   THEN Reply(c, EarnResponse(c, "PUT /yearly-earnings", body, 200,
                                              AddCounts(pc[c].n, up.n)))
                   ELSE /\ pc' = [pc EXCEPT ![c].applied = @ + 1,
                                            ![c].n = AddCounts(@, up.n)]
                        /\ UNCHANGED res

\* the store applies the next operation of the batch, or fails
BulkWriteStep(c) ==
    LET op == pc[c].ops[pc[c].applied + 1]
        up == UpsertByYear(yearlyEarnings, op.year, op.amount, nextId)
        body == ArrayBody(pc[c].ops)
    IN  /\ pc[c].op = "bulkWrite"
        /\ UNCHANGED <<variant, users, propertyData, storeUp>>
        /\ IF ~storeUp
           THEN /\ Reply(c, EarnResponse(c, "PUT /yearly-earnings", body, 500, NoCounts))
                /\ UNCHANGED <<yearlyEarnings, nextId>>
           ELSE /\ yearlyEarnings' = up.coll
                /\ nextId' = nextId + up.n.upserted
                /\ IF pc[c].applied + 1 = Len(pc[c].ops)
                   THEN Reply(c, EarnResponse(c, "PUT /yearly-earnings", body, 200,
                                              AddCounts(pc[c].n, up.n)))
                   ELSE /\ pc' = [pc EXCEPT ![c].applied = @ + 1,
                                            ![c].n = AddCounts(@, up.n)]
                        /\ UNCHANGED res

(***************************************************************************)
(* PUT /yearly-earnings, singleton (part_000)                              *)
(***************************************************************************)
PutYearlyEarnings(c, body) ==
    LET up == UpsertFirst(yearlyEarnings, body, nextId)
    IN  /\ variant = "part_000"
        /\ pc[c] = Idle
        /\ UNCHANGED <<variant, users, propertyData, storeUp>>
        /\ IF ~IsObjectLike(body)
           THEN /\ Reply(c, EarnResponse(c, "PUT /yearly-earnings", body, 400, NoCounts))
                /\ UNCHANGED <<yearlyEarnings, nextId>>
           ELSE IF ~storeUp \/ body.kind = "array"
           THEN \* the server refuses a $set whose operand is an array
                /\ Reply(c, EarnResponse(c, "PUT /yearly-earnings", body, 500, NoCounts))
                /\ UNCHANGED <<yearlyEarnings, nextId>>
           ELSE /\ up.n.upserted = 1 => nextId < MaxInserts
                /\ yearlyEarnings' = up.coll
                /\ nextId' = nextId + up.n.upserted
                /\ Reply(c, EarnResponse(c, "PUT /yearly-earnings", body, 200, up.n))

(***************************************************************************)
(* POST /add-property (index.js)                                           *)
(***************************************************************************)
\* details.k: a key of undefined or null throws, but `!details ||` guards it
Detail(body, k) == IF body.details = Object THEN body[k] ELSE Undefined

PostAddProperty(c, body) ==
    /\ variant = "index.js"
    /\ pc[c] = Idle
    /\ UNCHANGED <<variant, users, yearlyEarnings, storeUp>>
    /\ IF \/ ~Truthy(body.propertyType)
          \/ ~Truthy(body.location)
          \/ ~Truthy(body.details)
          \/ ~Truthy(Detail(body, "name"))
          \/ ~Truthy(Detail(body, "country"))
          \/ ~Truthy(Detail(body, "address"))
          \/ ~Truthy(Detail(body, "city"))
          \/ ~Truthy(Detail(body, "state"))
          \/ ~Truthy(Detail(body, "zipCode"))
       THEN /\ Reply(c, [NoRes EXCEPT !.route = "POST /add-property", !.prop = body,
                                      !.status = 400])
            /\ UNCHANGED <<propertyData, nextId>>
       ELSE IF ~storeUp
       THEN /\ Reply(c, [NoRes EXCEPT !.route = "POST /add-property", !.prop = body,
                                      !.status = 500])
            /\ UNCHANGED <<propertyData, nextId>>
       ELSE /\ nextId < MaxInserts
            /\ propertyData' = Append(propertyData, [_id |-> nextId, body |-> body])
            /\ nextId' = nextId + 1
            /\ Reply(c, [NoRes EXCEPT !.route = "POST /add-property", !.prop = body,
                                      !.id = <<nextId>>, !.status = 201])

(***************************************************************************)
(* The store becomes unreachable, and reachable again.                     *)
(***************************************************************************)
StoreFails ==
    /\ storeUp
    /\ storeUp' = FALSE
    /\ UNCHANGED <<variant, users, yearlyEarnings, propertyData, nextId, pc, res>>

StoreRecovers ==
    /\ ~storeUp
    /\ storeUp' = TRUE
    /\ UNCHANGED <<variant, users, yearlyEarnings, propertyData, nextId, pc, res>>

(***************************************************************************)
(* The user routes, one request at a time: a single client, whose next     *)
(* request starts when its last one was answered (no two requests overlap).*)
(***************************************************************************)
Next ==
    \/ \E body \in UserBodies : PostUsersFind(FirstClient, body)
    \/ PostUsersInsert(FirstClient)
    \/ \E email \in EmailValues : GetUserByEmail(FirstClient, email)
    \/ \E id \in IdParams, body \in UpdateBodies : PutUser(FirstClient, id, body)
    \/ \E id \in IdParams : DeleteUser(FirstClient, id)
    \/ \E id \in IdParams, body \in RoleBodies : PatchUser(FirstClient, id, body)

Spec == Init /\ [][Next]_vars

(***************************************************************************)
(* The registration route under concurrent requests: every client may have *)
(* a request in flight, and the event loop interleaves their steps.        *)
(***************************************************************************)
NextRace ==
    \/ \E c \in Clients, body \in UserBodies : PostUsersFind(c, body)
    \/ \E c \in Clients : PostUsersInsert(c)

SpecRace == Init /\ [][NextRace]_vars

(***************************************************************************)
(* The earnings routes, one request at a time, over a store that may fail. *)
(***************************************************************************)
NextEarn ==
    \/ \E year \in YearParams, amount \in AmountValues :
          PutYearlyEarningsYear(FirstClient, year, amount)
    \/ \E body \in EarningsBodies : PutYearlyEarningsBulk(FirstClient, body)
    \/ BulkWriteStep(FirstClient)
    \/ \E body \in EarningsBodies : PutYearlyEarnings(FirstClient, body)
    \/ StoreFails
    \/ StoreRecovers

SpecEarn == Init /\ [][NextEarn]_vars

(***************************************************************************)
(* The property route, one request at a time.                              *)
(***************************************************************************)
NextProp == \E body \in PropertyBodies : PostAddProperty(FirstClient, body)

SpecProp == Init /\ [][NextProp]_vars

(***************************************************************************)
(* Properties of the user routes.                                          *)
(***************************************************************************)
Docs(coll) == {coll[i] : i \in 1..Len(coll)}

StoredEmails == {d.email : d \in Docs(users)}

\* a value that is a non-empty string
NonEmpty(x) == x.t = "string" /\ x.v # ""

\* an email of the localpart@domain.tld shape (strings are opaque here, so
\* the shape is given by listing the request emails that have it)
HasEmailShape(e) == e \in {Str("a@x.io"), Str("b@x.io")}

ByIdRoutes == {"PUT /users/:id", "DELETE /users/:id", "PATCH /users/:id"}

\* this step answers a request of client c on the route
Answers(c, route) == res'[c] # res[c] /\ res'[c].route = route

\* C1, as stated: a POST /users whose body email is the email of a stored
\* record is answered 200 (or 409) and leaves the users collection unchanged.
C1_DuplicateEmailAnswered200 ==
    [][\A c \in Clients :
          (Answers(c, "POST /users") /\ res'[c].body.email \in StoredEmails)
              => (res'[c].status \in {200, 409} /\ users' = users)]_vars

\* C1, amended: a POST /users whose body email is the email of a stored
\* record never creates a record and leaves the users collection unchanged;
\* it is answered 200 with the first stored record of that email when the
\* body carries a non-empty uid and name, and 400 when uid or name is
\* missing or empty.
C1_DuplicateEmailNeverInserts ==
    [][\A c \in Clients :
          /\ (Answers(c, "POST /users") /\ res'[c].body.email \in StoredEmails)
                => /\ users' = users
                   /\ nextId' = nextId
                   /\ IF NonEmpty(res'[c].body.uid) /\ NonEmpty(res'[c].body.name)
                      THEN /\ res'[c].status = 200
                           /\ res'[c].user \in Docs(users)
                           /\ res'[c].user.email = res'[c].body.email
                           /\ \A i \in 1..Len(users) :
                                 users[i].email = res'[c].body.email
                                     => \E j \in 1..i : users[j] = res'[c].user
                      ELSE res'[c].status = 400
          /\ (pc[c] = Idle /\ pc'[c].op = "insertOne")
                => pc'[c].body.email \notin StoredEmails]_vars

\* a registration with a stored email was answered with the stored record
C1_Witness ==
    \E c \in Clients :
        /\ res[c].route = "POST /users"
        /\ res[c].status = 200
        /\ res[c].user \in Docs(users)
        /\ res[c].user.email = res[c].body.email
        /\ Cardinality({i \in 1..Len(users) : users[i].email = res[c].body.email}) = 1

\* C3: DELETE /users/:i of a stored id i is answered 200 and removes exactly
\* that record; DELETE of a well-formed id that is not stored is answered 404
\* and leaves the store unchanged; an id once removed is never stored again,
\* so the second DELETE of the same id is answered 404.
C3_DeleteNotIdempotent ==
    [][/\ \A c \in Clients :
             (Answers(c, "DELETE /users/:id") /\ ObjectIdIsValid(res'[c].id))
                 => IF HexVal(res'[c].id) \in Ids(users)
                    THEN /\ res'[c].status = 200
                         /\ Len(users') = Len(users) - 1
                         /\ Docs(users') = {d \in Docs(users) : d._id # HexVal(res'[c].id)}
                    ELSE /\ res'[c].status = 404
                         /\ users' = users
       /\ \A c \in Clients :
             (res[c].route = "DELETE /users/:id" /\ res[c].status = 200)
                 => HexVal(res[c].id) \notin Ids(users')
       /\ \A i \in 0..(nextId - 1) : i \notin Ids(users) => i \notin Ids(users')]_vars

\* a second DELETE of an id that was stored and deleted was answered 404,
\* while another record is still stored
C3_Witness ==
    \E c \in Clients :
        /\ res[c].route = "DELETE /users/:id"
        /\ res[c].status = 404
        /\ ObjectIdIsValid(res[c].id)
        /\ HexVal(res[c].id) < nextId
        /\ HexVal(res[c].id) \notin Ids(users)
        /\ users # <<>>

\* C4: on PUT, DELETE and PATCH /users/:id an id that is no valid ObjectId
\* string is answered 400, never 404 or 500, and nothing is written.
C4_InvalidIdAnswered400 ==
    [][\A c \in Clients, route \in ByIdRoutes :
          (Answers(c, route) /\ ~ObjectIdIsValid(res'[c].id))
              => (res'[c].status = 400 /\ users' = users)]_vars

\* C5: a POST /users or GET /users/:email whose email has not the
\* localpart@domain.tld shape is answered 400 before findOne or insertOne
\* runs: no such request is suspended at a store call, none is answered
\* otherwise.
C5_MalformedEmailRejected ==
    [][\A c \in Clients :
          /\ \A route \in {"POST /users", "GET /users/:email"} :
                (Answers(c, route) /\ ~HasEmailShape(res'[c].body.email))
                    => (res'[c].status = 400 /\ users' = users)
          /\ pc'[c].op = "insertOne" => HasEmailShape(pc'[c].body.email)]_vars

\* C7: PATCH /users/:id with an isAdmin that is not a boolean is answered 400
\* and changes no user record; with a boolean and the id of a stored record it
\* sets the isAdmin field of that record and nothing else; with a boolean and
\* a well-formed id that no record has it is answered 404.
C7_PatchSetsOnlyIsAdmin ==
    [][\A c \in Clients :
          Answers(c, "PATCH /users/:id")
              => IF res'[c].body.isAdmin \notin {Bool(TRUE), Bool(FALSE)}
                 THEN res'[c].status = 400 /\ users' = users
                 ELSE ObjectIdIsValid(res'[c].id)
                      => IF HexVal(res'[c].id) \in Ids(users)
                         THEN /\ res'[c].status = 200
                              /\ Len(users') = Len(users)
                              /\ \A i \in 1..Len(users) :
                                    users'[i] =
                                        IF users[i]._id = HexVal(res'[c].id)
                                        THEN [users[i] EXCEPT
                                                 !.isAdmin = res'[c].body.isAdmin]
                                        ELSE users[i]
                         ELSE res'[c].status = 404 /\ users' = users]_vars

\* a PATCH made one of two stored users an admin and left the other alone
C7_Witness ==
    \E c \in Clients :
        /\ res[c].route = "PATCH /users/:id"
        /\ res[c].status = 200
        /\ res[c].body.isAdmin = Bool(TRUE)
        /\ \E d \in Docs(users) : d._id = HexVal(res[c].id) /\ d.isAdmin = Bool(TRUE)
        /\ \E d \in Docs(users) : d._id # HexVal(res[c].id) /\ d.isAdmin = Bool(FALSE)

\* C10: no two stored user records have the same email.
C10_EmailsUnique ==
    \A i, j \in 1..Len(users) : i # j => users[i].email # users[j].email

(***************************************************************************)
(* Properties of concurrent registrations.                                 *)
(***************************************************************************)
\* C9: the existence check and the insert are separate steps: a request that
\* passed findOne inserts its record and is answered 201 whatever was stored
\* in between, so two requests with one email that both passed the check
\* leave two records with that email.
C9_InsertAfterCheckAlwaysInserts ==
    [][\A c \in Clients :
          /\ (pc[c] = Idle /\ pc'[c].op = "insertOne")
                => pc'[c].body.email \notin StoredEmails
          /\ (pc[c].op = "insertOne" /\ pc'[c] = Idle)
                => /\ res'[c].status = 201
                   /\ Len(users') = Len(users) + 1
                   /\ SubSeq(users', 1, Len(users)) = users
                   /\ users'[Len(users')].email = pc[c].body.email
                   /\ res'[c].user = users'[Len(users')]]_vars

\* both requests were answered 201 and two records share the email
C9_Witness ==
    /\ \A c \in Clients : res[c].route = "POST /users" /\ res[c].status = 201
    /\ \E c, d \in Clients : c # d /\ res[c].user.email = res[d].user.email
    /\ \E i, j \in 1..Len(users) : i # j /\ users[i].email = users[j].email
    /\ \A c \in Clients : res[c].user \in Docs(users)

(***************************************************************************)
(* Properties of the earnings routes.                                      *)
(***************************************************************************)
\* the year a bulk entry addresses, as the store sees it
YearOf(e) == IF e.year = Undefined THEN Null ELSE e.year
AmountOf(e) == IF e.amount = Undefined THEN Null ELSE e.amount

\* the first K entries of ops are reflected in coll, which otherwise is as
\* `before` was: every year one of them names has a document holding the
\* amount of the last of them that names it, and the documents of all other
\* years are those of `before`
FirstKApplied(before, ops, K, coll) ==
    LET years == {YearOf(ops[j]) : j \in 1..K}
        last(y) == CHOOSE j \in 1..K :
                      YearOf(ops[j]) = y /\ \A k \in 1..K : YearOf(ops[k]) = y => k <= j
    IN  /\ \A y \in years :
              \E i \in 1..Len(coll) :
                  /\ coll[i].year = y
                  /\ \A h \in 1..(i - 1) : coll[h].year # y
                  /\ coll[i].amount = AmountOf(ops[last(y)])
        /\ {d \in Docs(coll) : d.year \notin years}
               = {d \in Docs(before) : d.year \notin years}
        /\ Len(coll) = Len(before)
               + Cardinality({y \in years : \A d \in Docs(before) : d.year # y})

\* C2: an upsert route (PUT /yearly-earnings/:year, or the singleton PUT
\* /yearly-earnings of part_000) called a second time with the arguments of
\* the call before it, both accepted, leaves the store as the first call left
\* it and reports nothing created: no document upserted, one matched.
C2_UpsertTwiceIsIdempotent ==
    [][\A c \in Clients :
          \A route \in {"PUT /yearly-earnings/:year"}
                          \cup (IF variant = "part_000" THEN {"PUT /yearly-earnings"} ELSE {}) :
              (/\ Answers(c, route)
               /\ res'[c].status = 200
               /\ res[c].status = 200
               /\ res[c].route = route
               /\ res[c].earn = res'[c].earn)
                  => /\ yearlyEarnings' = yearlyEarnings
                     /\ res'[c].n.upserted = 0
                     /\ res'[c].n.matched = 1
                     /\ res'[c].n.modified = 0]_vars

\* the same year and amount were PUT twice in a row: the second call matched
\* the document the first had created and changed nothing
C2_Witness ==
    \E c \in Clients :
        /\ res[c].route = "PUT /yearly-earnings/:year"
        /\ res[c].status = 200
        /\ res[c].again
        /\ res[c].n = [matched |-> 1, modified |-> 0, upserted |-> 0]
        /\ Len(yearlyEarnings) = 1
        /\ nextId = 1
        /\ yearlyEarnings[1].year = res[c].earn.year
        /\ yearlyEarnings[1].amount = res[c].earn.amount

\* C8: when the store fails after K < N of the upserts of a bulk PUT
\* /yearly-earnings have been applied, the request is answered 500, the K
\* upserts stay applied (nothing is rolled back), and the other years are
\* untouched.
C8_BulkAppliesPrefixOnFailure ==
    [][\A c \in Clients :
          /\ (pc[c].op = "bulkWrite" /\ ~storeUp /\ pc'[c] # pc[c])
                => (pc'[c] = Idle /\ res'[c].status = 500)
          /\ (pc[c].op = "bulkWrite" /\ pc'[c] = Idle /\ res'[c].status = 500)
                => /\ pc[c].applied < Len(pc[c].ops)
                   /\ res'[c].route = "PUT /yearly-earnings"
                   /\ yearlyEarnings' = yearlyEarnings
                   /\ FirstKApplied(pc[c].before, pc[c].ops, pc[c].applied, yearlyEarnings)]_vars

\* a bulk update of two years was answered 500 after the first year was
\* written and before the second was
C8_Witness ==
    \E c \in Clients :
        /\ res[c].route = "PUT /yearly-earnings"
        /\ res[c].status = 500
        /\ pc[c] = Idle
        /\ Len(res[c].earn.arr) = 2
        /\ \A i \in 1..2 : res[c].earn.arr[i].t = "object"
        /\ Len(yearlyEarnings) = 1
        /\ yearlyEarnings[1].year = res[c].earn.arr[1].year
        /\ yearlyEarnings[1].amount = res[c].earn.arr[1].amount
        /\ yearlyEarnings[1].year # YearOf(res[c].earn.arr[2])

\* the calendar year a stored year value denotes: the string "2024" of a path
\* parameter and the number 2024 of a JSON body denote the same year
YearDenoted(y) == y.v

\* C11: in every state reached by PUT /yearly-earnings/:year and bulk PUT
\* /yearly-earnings requests there is at most one document per year,
\* whichever of the two routes wrote the year first.
C11_OneDocumentPerYear ==
    \A i, j \in 1..Len(yearlyEarnings) :
        i # j => YearDenoted(yearlyEarnings[i].year) # YearDenoted(yearlyEarnings[j].year)

(***************************************************************************)
(* Properties of the property route.                                       *)
(***************************************************************************)
\* propertyType, location and details.{name .. zipCode} are all present and
\* non-empty
Complete(b) == b.details = Object /\ \A k \in PropertyKeys : NonEmpty(b[k])

\* C6: POST /add-property with propertyType, location, details or one of the
\* six details fields missing or empty is answered 400 and writes nothing;
\* with all of them present it inserts exactly one record, the body, and is
\* answered 201.
C6_PropertyNeedsAllFields ==
    [][\A c \in Clients :
          Answers(c, "POST /add-property")
              => IF Complete(res'[c].prop)
                 THEN /\ res'[c].status = 201
                      /\ Len(propertyData') = Len(propertyData) + 1
                      /\ SubSeq(propertyData', 1, Len(propertyData)) = propertyData
                      /\ propertyData'[Len(propertyData')].body = res'[c].prop
                 ELSE /\ res'[c].status = 400
                      /\ propertyData' = propertyData]_vars

\* a body whose only defect is a missing details.zipCode was answered 400
\* and not stored, after a complete body had been stored
C6_Witness ==
    \E c \in Clients :
        /\ res[c].route = "POST /add-property"
        /\ res[c].status = 400
        /\ res[c].prop.details = Object
        /\ res[c].prop.zipCode = Undefined
        /\ \A k \in PropertyKeys \ {"zipCode"} : NonEmpty(res[c].prop[k])
        /\ Len(propertyData) = 1
        /\ Complete(propertyData[1].body)

====
